---- MODULE Spec2Model ----
(***************************************************************************)
(* Model of tracer/qemu/check_trace.py: the cross-validation of a ChampSim *)
(* debug.txt trace (the candidate) against a Spike commit log (the         *)
(* reference).  main() parses both files, check() walks the two record     *)
(* lists with the cursors si and ti, and the process exits 0 or 1.         *)
(*                                                                         *)
(* One action models one iteration of the while loop of check(); the       *)
(* cursors si and ti are 0-based as in the code, so the record under the   *)
(* reference cursor is spike_insns[si + 1] here.                           *)
(***************************************************************************)
EXTENDS Integers, Sequences, FiniteSets, TLC

VARIABLES
    spike_log,      \* lines of the Spike commit log (argument "spike")
    debug_txt,      \* lines of the debug.txt trace (argument "debug")
    max_insns,      \* --max
    stop_on_error,  \* --stop-on-error
    spike_insns,    \* parse_spike(args.spike)
    trace_insns,    \* parse_debug(args.debug)
    si, ti,         \* cursors of check()
    checked, errors, warnings,
    out,            \* the diagnostics printed so far, in order
    steps,          \* history: one record per iteration of the while loop
    result,         \* the "Result:" line of the summary
    exit_code,      \* argument of sys.exit
    pc              \* "main", "check", "summary", "exit"

vars == <<spike_log, debug_txt, max_insns, stop_on_error, spike_insns,
          trace_insns, si, ti, checked, errors, warnings, out, steps,
          result, exit_code, pc>>

(***************************************************************************)
(* Bounds of the model.                                                    *)
(***************************************************************************)
MaxSpike == 2       \* lines of the Spike log
MaxTrace == 3       \* lines of debug.txt
MaxCap   == 1       \* largest --max tried (0 = all)

(***************************************************************************)
(* Optional[int] = None of SpikeInsn.load_addr / store_addr.               *)
(***************************************************************************)
None == -1

(***************************************************************************)
(* MMIO_REGIONS and is_mmio.                                               *)
(***************************************************************************)
MMIO_REGIONS ==
    << <<268435456, 268435712>>,    \* (0x10000000, 0x10000100) UART0
       <<1048576,   1048592>>,      \* (0x00100000, 0x00100010) VIRT_TEST
       <<33554432,  33619967>>,     \* (0x02000000, 0x0200FFFF) CLINT
       <<201326592, 268435455>> >>  \* (0x0C000000, 0x0FFFFFFF) PLIC

is_mmio_ExclusiveLow(addr) ==
    \E i \in DOMAIN MMIO_REGIONS :
        MMIO_REGIONS[i][1] < addr /\ addr < MMIO_REGIONS[i][2]

is_mmio_InclusiveHigh(addr) ==
    \E i \in DOMAIN MMIO_REGIONS :
        MMIO_REGIONS[i][1] <= addr /\ addr <= MMIO_REGIONS[i][2]

is_mmio(addr) ==
    \E i \in DOMAIN MMIO_REGIONS :
        MMIO_REGIONS[i][1] <= addr /\ addr < MMIO_REGIONS[i][2]

(***************************************************************************)
(* The dataclasses.                                                        *)
(***************************************************************************)
SpikeInsn(ip, load_addr, store_addr) ==
    [ip |-> ip, load_addr |-> load_addr, store_addr |-> store_addr]

TraceInsn(ip, is_branch, branch_taken, dst_mem, src_mem) ==
    [ip |-> ip, is_branch |-> is_branch, branch_taken |-> branch_taken,
     dst_mem |-> dst_mem, src_mem |-> src_mem]

(***************************************************************************)
(* Lines of the two files.  A Spike line either matches SPIKE_RE, and then *)
(* carries its ip and the values of its first "mem" clause (none, the      *)
(* address, or the address and the data), or it does not.  A debug.txt     *)
(* line is a '#' comment, a line that matches DEBUG_RE (ip, branch, taken, *)
(* two dst_mem slots, four src_mem slots), or any other line.              *)
(***************************************************************************)
SpikeLine(ip, mem) == [kind |-> "insn", ip |-> ip, mem |-> mem]
SpikeNoise == [kind |-> "noise", ip |-> 0, mem |-> <<>>]

DebugLine(ip, branch, taken, dst, src) ==
    [kind |-> "insn", ip |-> ip, branch |-> branch, taken |-> taken,
     dst_mem |-> dst, src_mem |-> src]
DebugOther(kind) ==
    [kind |-> kind, ip |-> 0, branch |-> 0, taken |-> 0,
     dst_mem |-> <<0, 0>>, src_mem |-> <<0, 0, 0, 0>>]

(***************************************************************************)
(* parse_spike: one SpikeInsn per matching line, in file order; one mem    *)
(* value is a load, two are a store.                                       *)
(***************************************************************************)
SpikeOfLine(l) ==
    IF l.mem = <<>> THEN SpikeInsn(l.ip, None, None)
    ELSE IF Len(l.mem) = 2 THEN SpikeInsn(l.ip, None, l.mem[1])
    ELSE SpikeInsn(l.ip, l.mem[1], None)

RECURSIVE parse_spike(_)
parse_spike(lines) ==
    IF lines = <<>> THEN <<>>
    ELSE IF Head(lines).kind # "insn" THEN parse_spike(Tail(lines))
    ELSE <<SpikeOfLine(Head(lines))>> \o parse_spike(Tail(lines))

(***************************************************************************)
(* parse_debug: comments and non-matching lines are skipped; the zero      *)
(* slots are dropped from dst_mem and src_mem.                             *)
(***************************************************************************)
NonZero_KeepAll(a) == TRUE
NonZero(a) == a # 0

TraceOfLine(l) ==
    TraceInsn(l.ip, l.branch, l.taken,
              SelectSeq(l.dst_mem, NonZero), SelectSeq(l.src_mem, NonZero))

\* parse_debug without the "if not m: continue" of line 108.
parse_debug_KeepOther(lines) == [i \in DOMAIN lines |-> TraceOfLine(lines[i])]

RECURSIVE parse_debug(_)
parse_debug(lines) ==
    IF lines = <<>> THEN <<>>
    ELSE IF Head(lines).kind # "insn" THEN parse_debug(Tail(lines))
    ELSE <<TraceOfLine(Head(lines))>> \o parse_debug(Tail(lines))

(***************************************************************************)
(* The per-pair checks of check().                                         *)
(***************************************************************************)
InList(a, list) == \E i \in DOMAIN list : list[i] = a

SpikeTaken_Only4(insns, i) ==
    IF i + 1 < Len(insns)
    THEN LET next_ip == insns[i + 2].ip
             ip      == insns[i + 1].ip
         IN  IF next_ip # ip + 4 THEN 1 ELSE 0
    ELSE 0

\* lines 152-165: spike_taken, from the ip of the next Spike record.
SpikeTaken(insns, i) ==
    IF i + 1 < Len(insns)
    THEN LET next_ip == insns[i + 2].ip
             ip      == insns[i + 1].ip
         IN  IF next_ip # ip + 4 /\ next_ip # ip + 2 THEN 1 ELSE 0
    ELSE 0

\* lines 153-165: spike_is_branch (assigned, never read by the checks).
SpikeIsBranch(insns, i, tr) ==
    IF i + 1 < Len(insns)
    THEN LET next_ip == insns[i + 2].ip
             ip      == insns[i + 1].ip
         IN  IF next_ip # ip + 4 /\ next_ip # ip + 2 THEN 1
             ELSE IF tr.is_branch # 0 /\ tr.branch_taken # 0 THEN 1 ELSE 0
    ELSE 0

\* line 168
BranchTakenError(tr, spike_taken) ==
    tr.is_branch # 0 /\ tr.branch_taken # spike_taken

\* lines 176-190
SrcMemError(sp, tr) ==
    IF sp.load_addr # None
    THEN IF is_mmio(sp.load_addr) THEN FALSE
         ELSE ~InList(sp.load_addr, tr.src_mem)
    ELSE tr.src_mem # <<>>

DstMemError_NoOverReport(sp, tr) ==
    IF sp.store_addr # None
    THEN IF is_mmio(sp.store_addr) THEN FALSE
         ELSE ~InList(sp.store_addr, tr.dst_mem)
    ELSE FALSE

\* lines 193-207
DstMemError(sp, tr) ==
    IF sp.store_addr # None
    THEN IF is_mmio(sp.store_addr) THEN FALSE
         ELSE ~InList(sp.store_addr, tr.dst_mem)
    ELSE tr.dst_mem # <<>>

Diag(tag, n, ip) == [tag |-> tag, n |-> n, ip |-> ip]

(***************************************************************************)
(* The body of the loop for a matched pair, after "checked += 1": the      *)
(* three checks in order; an error under stop_on_error breaks out of the   *)
(* loop, and the later checks of the pair are not evaluated.  The value is *)
(* [errs: the tags printed, evaluated: the checks run, broke: left by      *)
(* break].                                                                 *)
(***************************************************************************)
RunCheck_AlwaysBreak(st, name, tag, failed, stop) ==
    IF st.broke THEN st
    ELSE [errs      |-> IF failed THEN Append(st.errs, tag) ELSE st.errs,
          evaluated |-> Append(st.evaluated, name),
          broke     |-> failed]

RunCheck_NeverBreak(st, name, tag, failed, stop) ==
    IF st.broke THEN st
    ELSE [errs      |-> IF failed THEN Append(st.errs, tag) ELSE st.errs,
          evaluated |-> Append(st.evaluated, name),
          broke     |-> FALSE]

RunCheck(st, name, tag, failed, stop) ==
    IF st.broke THEN st
    ELSE [errs      |-> IF failed THEN Append(st.errs, tag) ELSE st.errs,
          evaluated |-> Append(st.evaluated, name),
          broke     |-> failed /\ stop]

\* The pair's three checks all run before stop_on_error is looked at.
CheckPair_WholePair(insns, i, tr, stop) ==
    LET sp == insns[i + 1]
        s0 == [errs |-> <<>>, evaluated |-> <<>>, broke |-> FALSE]
        s1 == RunCheck(s0, "branch_taken", "BRANCH_TAKEN",
                       BranchTakenError(tr, SpikeTaken(insns, i)), FALSE)
        s2 == RunCheck(s1, "src_mem", "SRC_MEM", SrcMemError(sp, tr), FALSE)
        s3 == RunCheck(s2, "dst_mem", "DST_MEM", DstMemError(sp, tr), FALSE)
    IN  [s3 EXCEPT !.broke = stop /\ s3.errs # <<>>]

CheckPair(insns, i, tr, stop) ==
    LET sp == insns[i + 1]
        s0 == [errs |-> <<>>, evaluated |-> <<>>, broke |-> FALSE]
        s1 == RunCheck(s0, "branch_taken", "BRANCH_TAKEN",
                       BranchTakenError(tr, SpikeTaken(insns, i)), stop)
        s2 == RunCheck(s1, "src_mem", "SRC_MEM", SrcMemError(sp, tr), stop)
        s3 == RunCheck(s2, "dst_mem", "DST_MEM", DstMemError(sp, tr), stop)
    IN  s3

(***************************************************************************)
(* The inputs tried.  Addresses: 0x100, 0x102, 0x104 are the ips (so that  *)
(* ip + 2, ip + 4 and a jump all occur); 0x1000 and 0x2000 are ordinary    *)
(* memory, 0x10000000 is the first UART0 address, 0 is the unused-slot     *)
(* value of debug.txt.  Four families of input files are tried:            *)
(*  - Align: any two files of up to MaxSpike / MaxTrace lines over two     *)
(*    small sets of lines (alignment, cap, stop-on-error);                 *)
(*  - Pair: one trace line against one Spike line and its successor, over  *)
(*    every combination of flags and memory operands (the per-pair         *)
(*    checks);                                                             *)
(*  - Synth: a Spike log and a trace written from it, line for line;       *)
(*  - Noise: files with comments and lines that match neither grammar.     *)
(***************************************************************************)
PCs == {256, 258, 260}
MemAddrs == {0, 8192, 268435456}
NoDst == <<0, 0>>
NoSrc == <<0, 0, 0, 0>>

\* The "mem" clauses of a Spike line: none, a load, a store.
SpikeMems ==
    {<<>>} \cup {<<a>> : a \in MemAddrs} \cup {<<a, 0>> : a \in MemAddrs}

DstSlots == {NoDst, <<0, 8192>>, <<268435456, 0>>}
SrcSlots == {NoSrc, <<0, 8192, 0, 0>>, <<268435456, 0, 0, 0>>,
             <<4096, 0, 0, 8192>>}

AlignSpikeLines == {SpikeLine(ip, <<>>) : ip \in PCs}

AlignDebugLines ==
    {DebugLine(ip, 0, 0, NoDst, NoSrc) : ip \in PCs}
        \cup {DebugLine(256, 1, 1, NoDst, <<0, 8192, 0, 0>>),
              DebugLine(258, 1, 0, <<8192, 0>>, NoSrc)}

PairSpikeLogs ==
    {<<SpikeLine(256, m)>> : m \in SpikeMems}
        \cup {<<SpikeLine(256, m), SpikeLine(ip, <<>>)>> :
                 m \in SpikeMems, ip \in PCs}

PairDebugLines ==
    {DebugLine(256, b, t, d, s) :
        b \in {0, 1}, t \in {0, 1}, d \in DstSlots, s \in SrcSlots}
        \cup {DebugLine(258, 0, 0, NoDst, NoSrc)}

SynthSpikeLines ==
    {SpikeLine(ip, <<>>) : ip \in PCs}
        \cup {SpikeLine(256, m) : m \in SpikeMems}

NoiseSpikeLines == {SpikeNoise, SpikeLine(256, <<>>)}
NoiseDebugLines ==
    {DebugOther("comment"), DebugOther("noise"),
     DebugLine(256, 0, 0, NoDst, NoSrc)}

SeqsUpTo(S, n) == UNION {[1..k -> S] : k \in 0..n}

(***************************************************************************)
(* A trace line written from record i (0-based) of a list of Spike         *)
(* records: the same ip, taken as the next ip tells, the record's own load *)
(* and store address in the first src_mem / dst_mem slot (an absent one    *)
(* leaves the slot 0), and is_branch as given.                             *)
(***************************************************************************)
SlotOf(addr) == IF addr = None THEN 0 ELSE addr

SynthLine(insns, i, branch) ==
    DebugLine(insns[i + 1].ip, branch, SpikeTaken(insns, i),
              <<SlotOf(insns[i + 1].store_addr), 0>>,
              <<SlotOf(insns[i + 1].load_addr), 0, 0, 0>>)

SynthTraces(insns) ==
    {[k \in 1..Len(insns) |-> SynthLine(insns, k - 1, b[k])] :
        b \in [1..Len(insns) -> {0, 1}]}

(***************************************************************************)
(* Init: the process is started on two files with its two options.         *)
(***************************************************************************)
InitFiles ==
    \/ /\ spike_log \in SeqsUpTo(AlignSpikeLines, MaxSpike)
       /\ debug_txt \in SeqsUpTo(AlignDebugLines, MaxTrace)
    \/ /\ spike_log \in PairSpikeLogs
       /\ debug_txt \in {<<l>> : l \in PairDebugLines}
    \/ /\ spike_log \in SeqsUpTo(SynthSpikeLines, MaxSpike)
       /\ debug_txt \in SynthTraces(parse_spike(spike_log))
    \/ /\ spike_log \in SeqsUpTo(NoiseSpikeLines, MaxSpike)
       /\ debug_txt \in SeqsUpTo(NoiseDebugLines, MaxTrace)

Init ==
    /\ InitFiles
    /\ max_insns \in 0..MaxCap
    /\ stop_on_error \in BOOLEAN
    /\ spike_insns = <<>>
    /\ trace_insns = <<>>
    /\ si = 0 /\ ti = 0
    /\ checked = 0 /\ errors = 0 /\ warnings = 0
    /\ out = <<>>
    /\ steps = <<>>
    /\ result = "none"
    /\ exit_code = None
    /\ pc = "main"

inputs == <<spike_log, debug_txt, max_insns, stop_on_error>>

\* main(), lines 229-237: both files are parsed, then check() is entered
\* (lines 124-132).
Parse ==
    /\ pc = "main"
    /\ spike_insns' = parse_spike(spike_log)
    /\ trace_insns' = parse_debug(debug_txt)
    /\ pc' = "check"
    /\ UNCHANGED <<inputs, si, ti, checked, errors, warnings, out, steps,
                   result, exit_code>>

\* line 134: si < n_spike and ti < n_trace
LoopCondAt(insns, trace, i, j) == i < Len(insns) /\ j < Len(trace)
LoopCond == LoopCondAt(spike_insns, trace_insns, si, ti)

\* line 135: max_insns and checked >= max_insns
CapReachedAt_OffByOne(max, n) == max # 0 /\ n > max
CapReachedAt_NoZeroTest(max, n) == n >= max
CapReachedAt(max, n) == max # 0 /\ n >= max
CapReached == CapReachedAt(max_insns, checked)

\* line 134: the while condition fails.
LoopExit ==
    /\ pc = "check"
    /\ ~LoopCond
    /\ pc' = "summary"
    /\ UNCHANGED <<inputs, spike_insns, trace_insns, si, ti, checked, errors,
                   warnings, out, steps, result, exit_code>>

\* lines 135-136: the cap on checked instructions is reached.
CapBreak ==
    /\ pc = "check"
    /\ LoopCond
    /\ CapReached
    /\ steps' = Append(steps, [kind |-> "CAP", si |-> si, ti |-> ti,
                               evaluated |-> <<>>, errs |-> <<>>])
    /\ pc' = "summary"
    /\ UNCHANGED <<inputs, spike_insns, trace_insns, si, ti, checked, errors,
                   warnings, out, result, exit_code>>

SyncSkip_BothSides ==
    /\ pc = "check"
    /\ LoopCond
    /\ ~CapReached
    /\ spike_insns[si + 1].ip # trace_insns[ti + 1].ip
    /\ out' = Append(out, Diag("SYNC", checked, spike_insns[si + 1].ip))
    /\ warnings' = warnings + 1
    /\ ti' = ti + 1
    /\ si' = si + 1
    /\ steps' = Append(steps, [kind |-> "SYNC", si |-> si, ti |-> ti,
                               evaluated |-> <<>>, errs |-> <<>>])
    /\ UNCHANGED <<inputs, spike_insns, trace_insns, checked, errors,
                   result, exit_code, pc>>

SyncSkip_Break ==
    /\ pc = "check"
    /\ LoopCond
    /\ ~CapReached
    /\ spike_insns[si + 1].ip # trace_insns[ti + 1].ip
    /\ out' = Append(out, Diag("SYNC", checked, spike_insns[si + 1].ip))
    /\ warnings' = warnings + 1
    /\ ti' = ti + 1
    /\ steps' = Append(steps, [kind |-> "SYNC", si |-> si, ti |-> ti,
                               evaluated |-> <<>>, errs |-> <<>>])
    /\ pc' = "summary"
    /\ UNCHANGED <<inputs, spike_insns, trace_insns, si, checked, errors,
                   result, exit_code>>

\* The skip is not counted as a warning.
SyncSkip_NoCount ==
    /\ pc = "check"
    /\ LoopCond
    /\ ~CapReached
    /\ spike_insns[si + 1].ip # trace_insns[ti + 1].ip
    /\ out' = Append(out, Diag("SYNC", checked, spike_insns[si + 1].ip))
    /\ ti' = ti + 1
    /\ steps' = Append(steps, [kind |-> "SYNC", si |-> si, ti |-> ti,
                               evaluated |-> <<>>, errs |-> <<>>])
    /\ UNCHANGED <<inputs, spike_insns, trace_insns, si, checked, errors,
                   warnings, result, exit_code, pc>>

SyncSkip_NoAdvance ==
    /\ pc = "check"
    /\ LoopCond
    /\ ~CapReached
    /\ spike_insns[si + 1].ip # trace_insns[ti + 1].ip
    /\ out' = Append(out, Diag("SYNC", checked, spike_insns[si + 1].ip))
    /\ warnings' = warnings + 1
    /\ steps' = Append(steps, [kind |-> "SYNC", si |-> si, ti |-> ti,
                               evaluated |-> <<>>, errs |-> <<>>])
    /\ UNCHANGED <<inputs, spike_insns, trace_insns, si, ti, checked, errors,
                   result, exit_code, pc>>

\* lines 142-147: the ips differ; one trace entry is skipped.
SyncSkip ==
    /\ pc = "check"
    /\ LoopCond
    /\ ~CapReached
    /\ spike_insns[si + 1].ip # trace_insns[ti + 1].ip
    /\ out' = Append(out, Diag("SYNC", checked, spike_insns[si + 1].ip))
    /\ warnings' = warnings + 1
    /\ ti' = ti + 1
    /\ steps' = Append(steps, [kind |-> "SYNC", si |-> si, ti |-> ti,
                               evaluated |-> <<>>, errs |-> <<>>])
    /\ UNCHANGED <<inputs, spike_insns, trace_insns, si, checked, errors,
                   result, exit_code, pc>>

\* lines 149-210: a matched pair.
MatchStep ==
    /\ pc = "check"
    /\ LoopCond
    /\ ~CapReached
    /\ spike_insns[si + 1].ip = trace_insns[ti + 1].ip
    /\ LET r == CheckPair(spike_insns, si, trace_insns[ti + 1], stop_on_error)
       IN  /\ checked' = checked + 1
           /\ errors' = errors + Len(r.errs)
           /\ out' = out \o [k \in DOMAIN r.errs |->
                               Diag(r.errs[k], checked + 1, spike_insns[si + 1].ip)]
           /\ steps' = Append(steps, [kind |-> "PAIR", si |-> si, ti |-> ti,
                                      evaluated |-> r.evaluated, errs |-> r.errs])
           /\ IF r.broke
              THEN /\ pc' = "summary"
                   /\ UNCHANGED <<si, ti>>
              ELSE /\ si' = si + 1
                   /\ ti' = ti + 1
                   /\ pc' = pc
    /\ UNCHANGED <<inputs, spike_insns, trace_insns, warnings, result, exit_code>>

\* line 216: 'PASS' if errors == 0 else 'FAIL'
Verdict(errs) == IF errs = 0 THEN "PASS" ELSE "FAIL"

\* line 239: sys.exit(0 if rc == 0 else 1)
ExitCode_OffByOne(rc) == IF rc <= 1 THEN 0 ELSE 1
ExitCode(rc) == IF rc = 0 THEN 0 ELSE 1

\* lines 212-217 and 238-239: the summary is printed, check() returns errors
\* and main() exits.
Summary ==
    /\ pc = "summary"
    /\ result' = Verdict(errors)
    /\ exit_code' = ExitCode(errors)
    /\ pc' = "exit"
    /\ UNCHANGED <<inputs, spike_insns, trace_insns, si, ti, checked, errors,
                   warnings, out, steps>>

Next ==
    \/ Parse
    \/ LoopExit
    \/ CapBreak
    \/ SyncSkip
    \/ MatchStep
    \/ Summary

Spec == Init /\ [][Next]_vars

(***************************************************************************)
(* check() as a function of its arguments: the loop run to its end from    *)
(* the state st = [si, ti, checked, errors, warnings, out].                *)
(***************************************************************************)
RECURSIVE CheckLoop(_, _, _, _, _)
CheckLoop(insns, trace, max, stop, st) ==
    IF ~LoopCondAt(insns, trace, st.si, st.ti) THEN st
    ELSE IF CapReachedAt(max, st.checked) THEN st
    ELSE IF insns[st.si + 1].ip # trace[st.ti + 1].ip
    THEN CheckLoop(insns, trace, max, stop,
                   [st EXCEPT !.warnings = @ + 1, !.ti = @ + 1,
                              !.out = Append(@, Diag("SYNC", st.checked,
                                                     insns[st.si + 1].ip))])
    ELSE LET r  == CheckPair(insns, st.si, trace[st.ti + 1], stop)
             s1 == [st EXCEPT !.checked = @ + 1,
                              !.errors = @ + Len(r.errs),
                              !.out = @ \o [k \in DOMAIN r.errs |->
                                               Diag(r.errs[k], st.checked + 1,
                                                    insns[st.si + 1].ip)]]
         IN  IF r.broke THEN s1
             ELSE CheckLoop(insns, trace, max, stop,
                            [s1 EXCEPT !.si = @ + 1, !.ti = @ + 1])

check(insns, trace, max, stop) ==
    CheckLoop(insns, trace, max, stop,
              [si |-> 0, ti |-> 0, checked |-> 0, errors |-> 0,
               warnings |-> 0, out |-> <<>>])

\* The loop of the actions ends in the state check() computes.
CheckAgrees ==
    pc \in {"summary", "exit"} =>
        check(spike_insns, trace_insns, max_insns, stop_on_error) =
            [si |-> si, ti |-> ti, checked |-> checked, errors |-> errors,
             warnings |-> warnings, out |-> out]

(***************************************************************************)
(* Vocabulary of the properties.                                           *)
(***************************************************************************)
ErrorTags == {"BRANCH_TAKEN", "SRC_MEM", "DST_MEM"}
Count(seq, tags) == Cardinality({k \in DOMAIN seq : seq[k].tag \in tags})
LastStep == steps[Len(steps)]

\* The loop is at a step that compares the two ips.
AtCompare == pc = "check" /\ LoopCond /\ ~CapReached
AtMatch == AtCompare /\ spike_insns[si + 1].ip = trace_insns[ti + 1].ip
AtMismatch == AtCompare /\ spike_insns[si + 1].ip # trace_insns[ti + 1].ip

(***************************************************************************)
(* C1.  As claimed: every loop step that finds the two ips equal raises    *)
(* checked by one and advances both cursors by one, whatever max_insns and *)
(* stop_on_error are.  This fails: an error under stop_on_error leaves the *)
(* loop by break, before "si += 1; ti += 1".                               *)
(***************************************************************************)
C1_AsClaimed ==
    [][AtMatch => /\ checked' = checked + 1
                  /\ si' = si + 1
                  /\ ti' = ti + 1]_vars

(***************************************************************************)
(* C1, amended.  Every loop step that finds the two ips equal raises       *)
(* checked by exactly one; it advances both cursors by exactly one, unless *)
(* stop_on_error is set and the pair has an error, and then it advances    *)
(* neither cursor and leaves the loop.  The cursors never part in such a   *)
(* step.                                                                   *)
(***************************************************************************)
C1_MatchedStep ==
    [][AtMatch =>
         /\ checked' = checked + 1
         /\ IF stop_on_error /\ errors' # errors
            THEN si' = si /\ ti' = ti /\ pc' = "summary"
            ELSE si' = si + 1 /\ ti' = ti + 1]_vars

\* A pair with an error was checked without stop_on_error, under a cap, and
\* both cursors moved on.
C1_Witness ==
    /\ steps # <<>>
    /\ LastStep.kind = "PAIR"
    /\ LastStep.errs # <<>>
    /\ ~stop_on_error
    /\ max_insns > 0
    /\ si = LastStep.si + 1
    /\ ti = LastStep.ti + 1
    /\ ti > si

C3_ExitCode ==
    /\ errors = Count(out, ErrorTags)
    /\ warnings = Count(out, {"SYNC"})
    /\ pc = "exit" =>
          /\ exit_code = (IF Count(out, ErrorTags) = 0 THEN 0 ELSE 1)
          /\ (result = "PASS") <=> (errors = 0)
          /\ result \in {"PASS", "FAIL"}

\* Exits with SYNC warnings: one passes, one fails with a single error.
C3_Witness ==
    /\ pc = "exit"
    /\ warnings >= 2
    /\ errors = 1
    /\ exit_code = 1
    /\ result = "FAIL"

(***************************************************************************)
(* The matched pairs of the run: the PAIR steps of the history, each with  *)
(* the Spike record sp and the trace record tr it compared.                *)
(***************************************************************************)
PairSteps == {k \in DOMAIN steps : steps[k].kind = "PAIR"}
SpOf(k) == spike_insns[steps[k].si + 1]
TrOf(k) == trace_insns[steps[k].ti + 1]
HasErr(k, tag) == InList(tag, steps[k].errs)

\* The address lies in a configured region [low, high).
InMmioRegion(addr) ==
    \E i \in DOMAIN MMIO_REGIONS :
        addr \in MMIO_REGIONS[i][1] .. (MMIO_REGIONS[i][2] - 1)

MmioLoad(sp) == sp.load_addr # None /\ InMmioRegion(sp.load_addr)
MmioStore(sp) == sp.store_addr # None /\ InMmioRegion(sp.store_addr)

(***************************************************************************)
(* C4.  As claimed: a matched pair whose Spike record has a load or store  *)
(* address in an MMIO region gets no SRC_MEM and no DST_MEM error,         *)
(* whatever the trace record's lists hold.  This fails: with an MMIO load  *)
(* the Spike record has no store, and a trace record with a non-empty      *)
(* dst_mem is reported by the store check (lines 202-205).                 *)
(***************************************************************************)
C4_AsClaimed ==
    \A k \in PairSteps :
        (MmioLoad(SpOf(k)) \/ MmioStore(SpOf(k))) =>
            ~HasErr(k, "SRC_MEM") /\ ~HasErr(k, "DST_MEM")

(***************************************************************************)
(* C4, amended.  A matched pair whose Spike record has a load address in   *)
(* an MMIO region gets no SRC_MEM error, and one whose Spike record has a  *)
(* store address in an MMIO region gets no DST_MEM error, whatever the     *)
(* trace record's lists hold.                                              *)
(***************************************************************************)
C4_MmioSkipped ==
    \A k \in PairSteps :
        /\ MmioLoad(SpOf(k)) => ~HasErr(k, "SRC_MEM")
        /\ MmioStore(SpOf(k)) => ~HasErr(k, "DST_MEM")

\* An MMIO load was compared with a trace record whose src_mem holds other
\* addresses only, and nothing was reported.
C4_Witness ==
    \E k \in PairSteps :
        /\ MmioLoad(SpOf(k))
        /\ TrOf(k).src_mem # <<>>
        /\ ~InList(SpOf(k).load_addr, TrOf(k).src_mem)
        /\ steps[k].evaluated = <<"branch_taken", "src_mem", "dst_mem">>
        /\ steps[k].errs = <<>>

(***************************************************************************)
(* The run is past main()'s parsing / past the loop of check().            *)
(***************************************************************************)
Parsed == pc # "main"
LoopDone == pc \in {"summary", "exit"}

\* The trace was written from the Spike log, line for line.
Synthesized == debug_txt \in SynthTraces(parse_spike(spike_log))

\* No load or store address of the Spike log is 0.
NoZeroAddress ==
    \A k \in DOMAIN spike_log :
        spike_log[k].kind = "insn" => \A j \in DOMAIN spike_log[k].mem :
                                        j = 1 => spike_log[k].mem[j] # 0

(***************************************************************************)
(* C5.  Round trip, as claimed: for every Spike log, the trace written     *)
(* from it (same ips in the same order, taken as the next ip tells, the    *)
(* record's own load / store address in the slots) is checked with         *)
(* errors = 0 and no SYNC warning, and with checked = the number of Spike  *)
(* records when there is no cap.  This fails for a load or store at        *)
(* address 0: parse_debug drops the slot and check() reports the load      *)
(* (store) as missing.                                                     *)
(***************************************************************************)
C5_AsClaimed ==
    (LoopDone /\ Synthesized) =>
        /\ errors = 0
        /\ warnings = 0
        /\ max_insns = 0 => checked = Len(spike_insns)

(***************************************************************************)
(* C5 restricted to the Spike logs without a load or store at address 0:   *)
(* for these the round trip holds.                                         *)
(***************************************************************************)
C5_RoundTripNonZero ==
    (LoopDone /\ Synthesized /\ NoZeroAddress) =>
        /\ errors = 0
        /\ warnings = 0
        /\ max_insns = 0 => checked = Len(spike_insns)
        /\ pc = "exit" => exit_code = 0

\* A round trip over a log with a jump, a load and an MMIO store.
C5_Witness ==
    /\ pc = "exit"
    /\ Synthesized
    /\ NoZeroAddress
    /\ max_insns = 0
    /\ checked = MaxSpike
    /\ \E k \in DOMAIN spike_insns : SpikeTaken(spike_insns, k - 1) = 1
    /\ \E k \in DOMAIN spike_insns : spike_insns[k].load_addr = 8192
    /\ \E k \in DOMAIN trace_insns : trace_insns[k].is_branch = 1

(***************************************************************************)
(* C6.  If both record lists are non-empty and no ip of the Spike list     *)
(* occurs in the trace list, then every loop step is a SYNC skip: the      *)
(* Spike cursor stays at 0, checked and errors stay 0, the loop goes on    *)
(* until the trace is used up (warnings = length of the trace), and the    *)
(* process exits with code 0.                                              *)
(***************************************************************************)
Disjoint ==
    /\ spike_insns # <<>>
    /\ trace_insns # <<>>
    /\ \A i \in DOMAIN spike_insns : \A j \in DOMAIN trace_insns :
           spike_insns[i].ip # trace_insns[j].ip

C6_NeverMatched ==
    (Parsed /\ Disjoint) =>
        /\ si = 0 /\ checked = 0 /\ errors = 0
        /\ warnings = ti
        /\ \A k \in DOMAIN out : out[k].tag = "SYNC"
        /\ pc = "check" => (ti < Len(trace_insns) => ENABLED SyncSkip)
        /\ LoopDone => warnings = Len(trace_insns)
        /\ pc = "exit" => exit_code = 0 /\ result = "PASS"

\* A trace of MaxTrace records was skipped whole, under a cap and
\* stop_on_error.
C6_Witness ==
    /\ pc = "exit"
    /\ Disjoint
    /\ Len(spike_insns) = MaxSpike
    /\ warnings = MaxTrace
    /\ stop_on_error
    /\ max_insns > 0

(***************************************************************************)
(* C7.  With max_insns = N > 0, checked never exceeds N.  When the two     *)
(* lists hold at least N matched pairs and the loop is not left by         *)
(* stop_on_error, check() ends with checked = N, and no step after the     *)
(* N-th pair compares or skips anything: the loop ends there (the cap      *)
(* break, or the while condition).  With max_insns = 0 the cap never       *)
(* leaves the loop.                                                        *)
(***************************************************************************)
\* The matched pairs of the two lists: what a run without cap and without
\* stop_on_error checks.
Available == check(spike_insns, trace_insns, 0, FALSE).checked

StoppedOnError == stop_on_error /\ errors > 0

C7_Cap ==
    /\ max_insns > 0 => checked <= max_insns
    /\ max_insns = 0 => \A k \in DOMAIN steps : steps[k].kind # "CAP"
    /\ (LoopDone /\ max_insns > 0 /\ Available >= max_insns
            /\ ~StoppedOnError) =>
          /\ checked = max_insns
          /\ \A k \in PairSteps : \A j \in DOMAIN steps :
                (j > k /\ Cardinality({i \in PairSteps : i <= k}) = max_insns)
                    => steps[j].kind = "CAP"

\* The cap stopped the loop with a second matched pair still to come.
C7_Witness ==
    /\ pc = "exit"
    /\ max_insns = MaxCap
    /\ checked = MaxCap
    /\ Available > MaxCap
    /\ LastStep.kind = "CAP"
    /\ warnings > 0

(***************************************************************************)
(* C8.  Two runs with the same cap N > 0 and the same stop_on_error, on    *)
(* inputs with at least N matched pairs that agree on the records of the   *)
(* first N matched pairs and on the trace entries skipped before them.     *)
(* The second run's lists are the first run's prefixes (the N Spike        *)
(* records, the trace records up to the N-th matched one) followed by any  *)
(* other records.                                                          *)
(***************************************************************************)
TailSpikeInsns ==
    {SpikeInsn(ip, None, None) : ip \in PCs} \cup {SpikeInsn(256, 8192, None)}
TailTraceInsns ==
    {TraceInsn(256, 0, 0, <<>>, <<>>), TraceInsn(258, 1, 1, <<>>, <<8192>>)}
TailSpikes == SeqsUpTo(TailSpikeInsns, 2)
TailTraces == SeqsUpTo(TailTraceInsns, 1)

\* The run under the cap alone: where it stops is where the N-th pair ends.
CapOnly == check(spike_insns, trace_insns, max_insns, FALSE)
CapPairsAvailable == max_insns > 0 /\ CapOnly.checked = max_insns
PrefixSpike == SubSeq(spike_insns, 1, max_insns)
PrefixTrace == SubSeq(trace_insns, 1, CapOnly.ti)

SameResult(insns, trace) ==
    LET r == check(insns, trace, max_insns, stop_on_error)
    IN  r.errors = errors /\ ExitCode(r.errors) = exit_code

\* The Spike record after the N-th matched one has the same ip in both
\* runs, or is absent in both.
SameNextIp(tail) ==
    IF Len(spike_insns) > max_insns
    THEN tail # <<>> /\ tail[1].ip = spike_insns[max_insns + 1].ip
    ELSE tail = <<>>

(***************************************************************************)
(* C8, as claimed: the two runs end with the same error count and the same *)
(* exit code, whatever the later records are.  This fails: the branch      *)
(* check of the N-th pair reads the ip of the Spike record after it        *)
(* (lines 154-156).                                                        *)
(***************************************************************************)
C8_AsClaimed ==
    (pc = "exit" /\ CapPairsAvailable) =>
        \A ts \in TailSpikes : \A tt \in TailTraces :
            SameResult(PrefixSpike \o ts, PrefixTrace \o tt)

(***************************************************************************)
(* C8, amended: two such runs that also agree on the ip of the Spike       *)
(* record that follows the N-th matched one (or both have none) end with   *)
(* the same error count and the same exit code, whatever the other later   *)
(* records are.                                                            *)
(***************************************************************************)
C8_CapPrefix ==
    (pc = "exit" /\ CapPairsAvailable) =>
        \A ts \in TailSpikes : \A tt \in TailTraces :
            SameNextIp(ts) => SameResult(PrefixSpike \o ts, PrefixTrace \o tt)

\* A capped run with an error in its pairs and records left over on both
\* sides, which other records could replace.
C8_Witness ==
    /\ pc = "exit"
    /\ CapPairsAvailable
    /\ errors > 0
    /\ warnings > 0
    /\ Len(spike_insns) > max_insns
    /\ Len(trace_insns) > CapOnly.ti
    /\ Available > max_insns

(***************************************************************************)
(* C9.  With stop_on_error, check() leaves the loop right after the first  *)
(* BRANCH_TAKEN, SRC_MEM or DST_MEM error: errors is at most 1 and the     *)
(* error is the last diagnostic printed.  A SYNC warning never leaves the  *)
(* loop, with or without stop_on_error: when the last step was a SYNC skip *)
(* and the loop is over, the while condition ended it.                     *)
(***************************************************************************)
C9_StopOnError ==
    /\ stop_on_error =>
          /\ errors <= 1
          /\ errors = 1 =>
                /\ out[Len(out)].tag \in ErrorTags
                /\ LoopDone
                /\ LastStep.kind = "PAIR"
    /\ (steps # <<>> /\ LastStep.kind = "SYNC") =>
          /\ pc = "check" \/ ~LoopCond
          /\ ti = LastStep.ti + 1

\* stop_on_error ended a run after a SYNC skip, at the first error of a pair
\* that has two, with records left on both sides.
C9_Witness ==
    /\ pc = "exit"
    /\ stop_on_error
    /\ errors = 1
    /\ warnings >= 1
    /\ LoopCond
    /\ Len(CheckPair(spike_insns, si, trace_insns[ti + 1], FALSE).errs) = 2

(***************************************************************************)
(* C10.  For every matched pair (r, c), a BRANCH_TAKEN error is printed if *)
(* and only if c.is_branch is set and c.taken differs from inferred_taken, *)
(* which is true exactly when the next Spike record exists and its ip is   *)
(* neither r.ip + 4 nor r.ip + 2; a pair whose c.is_branch is unset gets   *)
(* no BRANCH_TAKEN error.                                                  *)
(***************************************************************************)
InferredTaken(k) ==
    /\ steps[k].si + 2 <= Len(spike_insns)
    /\ spike_insns[steps[k].si + 2].ip
          \notin {SpOf(k).ip + 4, SpOf(k).ip + 2}

C10_BranchTaken ==
    \A k \in PairSteps :
        /\ HasErr(k, "BRANCH_TAKEN") <=>
              (TrOf(k).is_branch = 1
                  /\ ((TrOf(k).branch_taken = 1) # InferredTaken(k)))
        /\ TrOf(k).is_branch = 0 => ~HasErr(k, "BRANCH_TAKEN")

\* Example 2 of the specification: the next ip is a jump, the trace says
\* branch=1 taken=0, and BRANCH_TAKEN is printed.
C10_Witness ==
    \E k \in PairSteps :
        /\ InferredTaken(k)
        /\ TrOf(k).is_branch = 1
        /\ TrOf(k).branch_taken = 0
        /\ HasErr(k, "BRANCH_TAKEN")

(***************************************************************************)
(* C11.  As the module docstring says (check 2, "is_branch"): for every    *)
(* checked instruction the Spike branch status, next ip # ip + 4, must     *)
(* match the trace's branch flag, so a matched pair whose Spike record is  *)
(* followed by an ip other than ip + 4 while the trace record has branch=0 *)
(* is reported as an error.  check() computes spike_is_branch (lines       *)
(* 153-165) and never reads it: no such error exists.                      *)
(***************************************************************************)
InferredBranch(k) ==
    /\ steps[k].si + 2 <= Len(spike_insns)
    /\ spike_insns[steps[k].si + 2].ip # SpOf(k).ip + 4

C11_AsClaimed ==
    \A k \in PairSteps :
        (InferredBranch(k) /\ TrOf(k).is_branch = 0) => steps[k].errs # <<>>

(***************************************************************************)
(* C12.  Memory-presence rule, for every matched pair (r, c) whose run     *)
(* reaches the check: SRC_MEM is printed if and only if either r has a     *)
(* load address that is not MMIO and is not in c's src_mem, or r has no    *)
(* load address and c's src_mem is non-empty (other addresses in src_mem   *)
(* besides a present load are no error); the same over store addresses and *)
(* dst_mem for DST_MEM; each is printed at most once per pair.             *)
(***************************************************************************)
Evaluated(k, name) == InList(name, steps[k].evaluated)
Member(a, list) == a \in {list[i] : i \in DOMAIN list}
TimesPrinted(k, tag) ==
    Cardinality({i \in DOMAIN steps[k].errs : steps[k].errs[i] = tag})

PresenceRule(addr, list) ==
    \/ addr # None /\ ~InMmioRegion(addr) /\ ~Member(addr, list)
    \/ addr = None /\ list # <<>>

C12_MemoryPresence ==
    \A k \in PairSteps :
        /\ Evaluated(k, "src_mem") =>
              (HasErr(k, "SRC_MEM")
                  <=> PresenceRule(SpOf(k).load_addr, TrOf(k).src_mem))
        /\ Evaluated(k, "dst_mem") =>
              (HasErr(k, "DST_MEM")
                  <=> PresenceRule(SpOf(k).store_addr, TrOf(k).dst_mem))
        /\ ~Evaluated(k, "src_mem") => ~HasErr(k, "SRC_MEM")
        /\ ~Evaluated(k, "dst_mem") => ~HasErr(k, "DST_MEM")
        /\ TimesPrinted(k, "SRC_MEM") <= 1
        /\ TimesPrinted(k, "DST_MEM") <= 1

\* A load found among other src_mem addresses is no error, and the store
\* the trace reports without a Spike store is one.
C12_Witness ==
    \E k \in PairSteps :
        /\ SpOf(k).load_addr = 8192
        /\ Len(TrOf(k).src_mem) = 2
        /\ TrOf(k).src_mem[1] # 8192
        /\ TrOf(k).dst_mem # <<>>
        /\ steps[k].errs = <<"DST_MEM">>

(***************************************************************************)
(* C13.  check() terminates for every pair of files and every setting of   *)
(* the options, by a normal exit of the loop.  Every loop step either      *)
(* raises the trace cursor by one without lowering the Spike cursor (so    *)
(* si + ti grows), or leaves the loop for the summary; the loop is left    *)
(* only by its while condition, the cap or stop_on_error; the cursors stay *)
(* within the lists, so no record is read out of range and the number of   *)
(* loop steps is at most the length of the trace; and until the process    *)
(* has exited it always has a next step, which after the loop is the       *)
(* summary and the exit.                                                   *)
(***************************************************************************)
C13_LoopStep ==
    pc = "check" =>
        \/ pc' = "check" /\ ti' = ti + 1 /\ si' >= si /\ si' + ti' > si + ti
        \/ pc' = "summary" /\ si' = si /\ ti' = ti

C13_SummaryStep ==
    pc = "summary" =>
        pc' = "exit" /\ result' \in {"PASS", "FAIL"} /\ exit_code' \in {0, 1}

C13_Terminates ==
    /\ [][C13_LoopStep /\ C13_SummaryStep]_vars
    /\ [](si <= Len(spike_insns) /\ ti <= Len(trace_insns))
    /\ [](Len(steps) <= Len(trace_insns) + 1)
    /\ [](pc = "summary" =>
             \/ ~LoopCond
             \/ CapReached
             \/ stop_on_error /\ errors > 0)
    /\ [](pc # "exit" => ENABLED Next)

\* A run that skipped, matched and reached its exit with both lists used up.
C13_Witness ==
    /\ pc = "exit"
    /\ warnings >= 1
    /\ checked = MaxSpike
    /\ si = Len(spike_insns)
    /\ ti = Len(trace_insns)
    /\ ti = MaxTrace

(***************************************************************************)
(* C14.  If either parsed list is empty -- the file is empty or none of    *)
(* its lines matches the grammar -- check() performs no loop step: nothing *)
(* is checked, no error and no warning is counted, no diagnostic is        *)
(* printed, the result is PASS and the exit code is 0.                     *)
(***************************************************************************)
NoInsnLine(lines) == \A i \in DOMAIN lines : lines[i].kind # "insn"

EitherEmpty ==
    \/ NoInsnLine(spike_log)
    \/ NoInsnLine(debug_txt)
    \/ spike_insns = <<>>
    \/ trace_insns = <<>>

C14_EmptyInput ==
    (Parsed /\ EitherEmpty) =>
        /\ spike_insns = <<>> \/ trace_insns = <<>>
        /\ steps = <<>>
        /\ si = 0 /\ ti = 0
        /\ checked = 0 /\ errors = 0 /\ warnings = 0
        /\ out = <<>>
        /\ pc = "exit" => result = "PASS" /\ exit_code = 0

\* A debug.txt of comments and non-matching lines only, against a Spike log
\* that has instructions, run to its exit.
C14_Witness ==
    /\ pc = "exit"
    /\ Len(debug_txt) >= 2
    /\ NoInsnLine(debug_txt)
    /\ \E i \in DOMAIN debug_txt : debug_txt[i].kind = "noise"
    /\ spike_insns # <<>>
    /\ result = "PASS"

(***************************************************************************)
(* Runs on files made for the two helper functions: Spike logs whose one   *)
(* memory access sits on or next to a bound of an MMIO region, and         *)
(* debug.txt lines with every filling of the dst_mem and src_mem slots.    *)
(***************************************************************************)
BoundAddrs ==
    UNION {{MMIO_REGIONS[i][1] - 1, MMIO_REGIONS[i][1],
            MMIO_REGIONS[i][2] - 1, MMIO_REGIONS[i][2]} :
              i \in DOMAIN MMIO_REGIONS}

ProbeAddrs == BoundAddrs \cup {0, 8192}

PlainDebugLines == {DebugLine(ip, 0, 0, NoDst, NoSrc) : ip \in {256, 258}}

MmioSpikeLogs ==
    LET first == {SpikeLine(256, <<a>>) : a \in ProbeAddrs}
                     \cup {SpikeLine(256, <<a, 0>>) : a \in ProbeAddrs}
    IN  {<<l>> : l \in first}
            \cup {<<l, SpikeLine(258, <<>>)>> : l \in first}

SlotValues == {0, 4096, 8192}

SlotDebugLines ==
    {DebugLine(256, 0, 0, d, s) :
        d \in [1..2 -> SlotValues], s \in [1..4 -> SlotValues]}

SlotDebugFiles ==
    {<<l>> : l \in SlotDebugLines}
        \cup {<<DebugOther("comment"), l>> : l \in SlotDebugLines}

InitUnitFiles ==
    \/ /\ spike_log \in MmioSpikeLogs
       /\ debug_txt \in SeqsUpTo(PlainDebugLines, MaxTrace)
    \/ /\ spike_log \in SeqsUpTo({SpikeLine(256, <<>>)}, MaxSpike)
       /\ debug_txt \in SlotDebugFiles

InitUnit ==
    /\ InitUnitFiles
    /\ max_insns \in 0..MaxCap
    /\ stop_on_error \in BOOLEAN
    /\ spike_insns = <<>>
    /\ trace_insns = <<>>
    /\ si = 0 /\ ti = 0
    /\ checked = 0 /\ errors = 0 /\ warnings = 0
    /\ out = <<>>
    /\ steps = <<>>
    /\ result = "none"
    /\ exit_code = None
    /\ pc = "main"

SpecUnit == InitUnit /\ [][Next]_vars

(***************************************************************************)
(* C15.  is_mmio(address) is true exactly when some configured region      *)
(* (low, high) has low <= address < high: the low bound is inside, the     *)
(* high bound itself is outside, and an address outside every region,      *)
(* address 0 among them, gives false.  Seen in check(): a Spike load or    *)
(* store the trace record does not list is reported exactly when its       *)
(* address is in no region.                                                *)
(***************************************************************************)
AccessOf(sp) == IF sp.load_addr # None THEN sp.load_addr ELSE sp.store_addr

C15_IsMmio ==
    /\ \A i \in DOMAIN spike_insns :
          AccessOf(spike_insns[i]) # None =>
              (is_mmio(AccessOf(spike_insns[i]))
                   <=> InMmioRegion(AccessOf(spike_insns[i])))
    /\ \A i \in DOMAIN MMIO_REGIONS :
          /\ is_mmio(MMIO_REGIONS[i][1])
          /\ is_mmio(MMIO_REGIONS[i][2])
                <=> \E j \in DOMAIN MMIO_REGIONS :
                       /\ MMIO_REGIONS[j][1] <= MMIO_REGIONS[i][2]
                       /\ MMIO_REGIONS[i][2] < MMIO_REGIONS[j][2]
    /\ ~is_mmio(0)
    /\ \A k \in PairSteps :
          /\ (SpOf(k).load_addr # None /\ Evaluated(k, "src_mem")
                 /\ ~Member(SpOf(k).load_addr, TrOf(k).src_mem))
               => (HasErr(k, "SRC_MEM") <=> ~InMmioRegion(SpOf(k).load_addr))
          /\ (SpOf(k).store_addr # None /\ Evaluated(k, "dst_mem")
                 /\ ~Member(SpOf(k).store_addr, TrOf(k).dst_mem))
               => (HasErr(k, "DST_MEM") <=> ~InMmioRegion(SpOf(k).store_addr))

\* A load at the high bound of the UART0 region, which the trace record
\* does not list, has been reported.
C15_Witness ==
    /\ pc = "exit"
    /\ \E k \in PairSteps :
          /\ SpOf(k).load_addr = MMIO_REGIONS[1][2]
          /\ TrOf(k).src_mem = <<>>
          /\ steps[k].errs = <<"SRC_MEM">>

(***************************************************************************)
(* C16.  The records of parse_debug are the matching lines in file order.  *)
(* The store list of a record is the non-zero values of the two dst_mem    *)
(* slots in slot order, its load list the non-zero values of the four      *)
(* src_mem slots in slot order: no list holds 0, a store list has at most  *)
(* 2 entries and a load list at most 4.                                    *)
(***************************************************************************)
IsInsnLine(l) == l.kind = "insn"
MatchingLines(lines) == SelectSeq(lines, IsInsnLine)

\* The positions of the non-zero slots, and the j-th of them.
Used(slots) == {i \in DOMAIN slots : slots[i] # 0}
NthUsed(slots, j) ==
    CHOOSE i \in Used(slots) :
        Cardinality({h \in Used(slots) : h < i}) = j - 1

KeptOf(list, slots) ==
    /\ Len(list) = Cardinality(Used(slots))
    /\ \A j \in DOMAIN list : list[j] = slots[NthUsed(slots, j)]

C16_ZeroSlotsDropped ==
    Parsed =>
        /\ Len(trace_insns) = Len(MatchingLines(debug_txt))
        /\ \A j \in DOMAIN trace_insns :
              LET l == MatchingLines(debug_txt)[j]
                  r == trace_insns[j]
              IN  /\ r.ip = l.ip
                  /\ r.is_branch = l.branch
                  /\ r.branch_taken = l.taken
                  /\ KeptOf(r.dst_mem, l.dst_mem)
                  /\ KeptOf(r.src_mem, l.src_mem)
                  /\ ~Member(0, r.dst_mem) /\ ~Member(0, r.src_mem)
                  /\ Len(r.dst_mem) <= 2 /\ Len(r.src_mem) <= 4

\* A line after a comment, with zero slots between and before its used
\* slots, parsed and compared.
C16_Witness ==
    /\ pc = "exit"
    /\ checked = 1
    /\ debug_txt = <<DebugOther("comment"),
                     DebugLine(256, 0, 0, <<0, 4096>>, <<8192, 0, 4096, 0>>)>>
    /\ trace_insns[1].dst_mem = <<4096>>
    /\ trace_insns[1].src_mem = <<8192, 4096>>

(***************************************************************************)
(* C17 as claimed: whenever a matched pair is counted, all three of its    *)
(* checks are evaluated before the loop halts, also under stop_on_error.   *)
(***************************************************************************)
AllChecks == <<"branch_taken", "src_mem", "dst_mem">>
TagOf(name) ==
    CASE name = "branch_taken" -> "BRANCH_TAKEN"
      [] name = "src_mem" -> "SRC_MEM"
      [] name = "dst_mem" -> "DST_MEM"

C17_AsClaimed == \A k \in PairSteps : steps[k].evaluated = AllChecks

(***************************************************************************)
(* C17.  Cancellation is cooperative: the loop is left only between        *)
(* checks.  The cap is tested once per loop iteration, before the two      *)
(* records are compared, so a pair that is counted is never cut short by   *)
(* the cap.  stop_on_error is tested after each check that reports an      *)
(* error: the checks of a counted pair run in the order branch outcome,    *)
(* load, store; without stop_on_error all three are evaluated; with it     *)
(* they are evaluated up to and including the first that reports an error, *)
(* the later ones are not evaluated, and the loop halts there.             *)
(***************************************************************************)
C17_Cooperative ==
    /\ \A k \in DOMAIN steps :
          steps[k].kind = "CAP" =>
              /\ k = Len(steps)
              /\ LoopDone
              /\ steps[k].evaluated = <<>>
    /\ \A k \in PairSteps :
          LET ev == steps[k].evaluated
              n  == Len(ev)
          IN  /\ n >= 1
              /\ ev = SubSeq(AllChecks, 1, n)
              /\ TimesPrinted(k, "BRANCH_TAKEN") + TimesPrinted(k, "SRC_MEM")
                     + TimesPrinted(k, "DST_MEM") = Len(steps[k].errs)
              /\ (~stop_on_error \/ steps[k].errs = <<>>) => ev = AllChecks
              /\ (stop_on_error /\ steps[k].errs # <<>>) =>
                     /\ steps[k].errs = <<TagOf(ev[n])>>
                     /\ k = Len(steps)
                     /\ LoopDone
                     /\ si = steps[k].si /\ ti = steps[k].ti

\* Under stop_on_error a pair was counted whose branch check failed: the
\* load and store checks of the pair were not evaluated.
C17_Witness ==
    /\ pc = "exit"
    /\ stop_on_error
    /\ checked >= 1
    /\ LastStep.kind = "PAIR"
    /\ LastStep.evaluated = <<"branch_taken">>
    /\ LastStep.errs = <<"BRANCH_TAKEN">>
    /\ TrOf(Len(steps)).src_mem # <<>>

(***************************************************************************)
(* Runs on a Spike log and a trace written from it (as in the Synth        *)
(* family) into which extra lines were put: each extra line stands before  *)
(* the line of a Spike record, the record awaited there, and has another   *)
(* ip than that record.  The extra lines carry flags and addresses that    *)
(* would be reported if they were ever compared.                           *)
(***************************************************************************)
ExtrasSpikeLines ==
    {SpikeLine(ip, <<>>) : ip \in PCs}
        \cup {SpikeLine(256, <<0>>), SpikeLine(256, <<8192>>),
              SpikeLine(258, <<4096, 0>>)}

ExtraLines ==
    {DebugLine(ip, 1, 1, <<8192, 0>>, <<4096, 0, 0, 0>>) : ip \in PCs}

FaithfulTraces(insns) ==
    {[k \in 1..Len(insns) |-> SynthLine(insns, k - 1, b)] : b \in {0, 1}}

\* The lines of faithful from its j-th on, with up to room extra lines put
\* before them.
RECURSIVE WithExtras(_, _, _)
WithExtras(faithful, j, room) ==
    IF j > Len(faithful) THEN {<<>>}
    ELSE {<<faithful[j]>> \o t : t \in WithExtras(faithful, j + 1, room)}
             \cup (IF room = 0 THEN {}
                   ELSE {<<x>> \o t :
                            x \in {e \in ExtraLines : e.ip # faithful[j].ip},
                            t \in WithExtras(faithful, j, room - 1)})

ExtrasTraces(insns) ==
    UNION {WithExtras(f, 1, MaxTrace - Len(insns)) : f \in FaithfulTraces(insns)}

InitExtras ==
    /\ spike_log \in SeqsUpTo(ExtrasSpikeLines, MaxSpike)
    /\ debug_txt \in ExtrasTraces(parse_spike(spike_log))
    /\ max_insns \in 0..MaxCap
    /\ stop_on_error \in BOOLEAN
    /\ spike_insns = <<>>
    /\ trace_insns = <<>>
    /\ si = 0 /\ ti = 0
    /\ checked = 0 /\ errors = 0 /\ warnings = 0
    /\ out = <<>>
    /\ steps = <<>>
    /\ result = "none"
    /\ exit_code = None
    /\ pc = "main"

SpecExtras == InitExtras /\ [][Next]_vars

(***************************************************************************)
(* C18, as claimed: desynchronization does not cascade.  When debug.txt is *)
(* a trace written from the Spike log with k extra lines put in, each      *)
(* before the line of a Spike record of another ip, the run without a cap  *)
(* skips exactly the k extra lines (warnings = k), checks every Spike      *)
(* record and reports no error.  This fails for a Spike load or store at   *)
(* address 0, as the round trip of C5 does: the slot is dropped by         *)
(* parse_debug and the access is reported as missing.                      *)
(***************************************************************************)
ExtrasInserted == debug_txt \in ExtrasTraces(parse_spike(spike_log))
ExtrasCount == Len(debug_txt) - Len(parse_spike(spike_log))

C18_AsClaimed ==
    (LoopDone /\ ExtrasInserted /\ max_insns = 0) =>
        /\ warnings = ExtrasCount
        /\ checked = Len(spike_insns)
        /\ errors = 0

\* The same for the Spike logs without a load or store at address 0: for
\* these the extra lines are skipped and nothing is reported.
C18_NoCascadeNonZero ==
    (LoopDone /\ ExtrasInserted /\ max_insns = 0 /\ NoZeroAddress) =>
        /\ warnings = ExtrasCount
        /\ checked = Len(spike_insns)
        /\ errors = 0
        /\ \A k \in DOMAIN out : out[k].tag = "SYNC"

(***************************************************************************)
(* C19.  Counters and cursors of check().  Whenever the loop condition is  *)
(* evaluated, si = checked and ti = checked + warnings.  In every state    *)
(* checked is at most the length of the shorter list and warnings at most  *)
(* the length of the trace, and when the loop has ended                    *)
(* checked + warnings is at most the length of the trace.                  *)
(***************************************************************************)
Min(a, b) == IF a <= b THEN a ELSE b

C19_Counters ==
    /\ pc = "check" => si = checked /\ ti = checked + warnings
    /\ Parsed =>
          /\ checked <= Min(Len(spike_insns), Len(trace_insns))
          /\ warnings <= Len(trace_insns)
          /\ checked = Cardinality(PairSteps)
          /\ warnings = Cardinality({k \in DOMAIN steps : steps[k].kind = "SYNC"})
    /\ ~Parsed => checked = 0 /\ warnings = 0
    /\ LoopDone => checked + warnings <= Len(trace_insns)

\* A loop that skipped and matched until the trace was used up, with part
\* of the Spike list left.
C19_Witness ==
    /\ pc = "exit"
    /\ warnings >= 1
    /\ checked >= 1
    /\ checked + warnings = Len(trace_insns)
    /\ checked < Len(spike_insns)

(***************************************************************************)
(* C20.  On the same two files, the diagnostics (SYNC warnings and errors, *)
(* in order) of a run with stop_on_error and / or a cap N > 0 are a prefix *)
(* of the diagnostics of the run with neither, and its checked, errors and *)
(* warnings counts are at most those of that run.                          *)
(***************************************************************************)
Unrestricted == check(spike_insns, trace_insns, 0, FALSE)
Restricted == stop_on_error \/ max_insns > 0
IsPrefix(s, t) == Len(s) <= Len(t) /\ s = SubSeq(t, 1, Len(s))

C20_Prefix ==
    (LoopDone /\ Restricted) =>
        /\ IsPrefix(out, Unrestricted.out)
        /\ checked <= Unrestricted.checked
        /\ errors <= Unrestricted.errors
        /\ warnings <= Unrestricted.warnings
        /\ errors = Count(out, ErrorTags)
        /\ warnings = Count(out, {"SYNC"})

\* A restricted run that printed something and stopped short of the run
\* without restrictions.
C20_Witness ==
    /\ pc = "exit"
    /\ Restricted
    /\ out # <<>>
    /\ Len(out) < Len(Unrestricted.out)
    /\ checked < Unrestricted.checked

====
